---- MODULE Spec2Model ----
(***************************************************************************)
(* Helper functions of src/main.py (image loading, confusion matrix,       *)
(* prediction plot, TensorBoard callback, loss curves, history comparison, *)
(* unzip, directory walk, classification metrics) as a state machine.      *)
(* A script calls the functions one after another; every statement that    *)
(* calls into a library is one step, and a library call that raises ends   *)
(* the script with an uncaught fault.  The state shared between calls is   *)
(* what the libraries keep globally: pyplot's figures and current figure,  *)
(* the files on disk, the open file handles and the console.               *)
(* Real-valued results are exact rationals <<numerator, denominator>>.     *)
(***************************************************************************)
EXTENDS Integers, Sequences, FiniteSets, TLC

(* ---------------- bounds of the model ---------------- *)
MaxLen == 3          \* longest label array
NumClasses == 3      \* labels are 0 .. NumClasses-1

(* ---------------- exact rational arithmetic ---------------- *)
RECURSIVE GCD(_, _)
GCD(a, b) == IF b = 0 THEN a ELSE GCD(b, a % b)

Rat(n, d) == LET g == GCD(n, d) IN IF n = 0 THEN <<0, 1>> ELSE <<n \div g, d \div g>>
RatAdd(p, q) == Rat(p[1] * q[2] + q[1] * p[2], p[2] * q[2])
RatMul(p, q) == Rat(p[1] * q[1], p[2] * q[2])
RatLeq(p, q) == p[1] * q[2] <= q[1] * p[2]

\* the sum of the rationals f[c], c in S
RECURSIVE RatSum(_, _)
RatSum(S, f) ==
  IF S = {} THEN <<0, 1>>
  ELSE LET c == CHOOSE x \in S : TRUE IN RatAdd(f[c], RatSum(S \ {c}, f))

(* ---------------- sklearn.metrics on label arrays ---------------- *)
Labels == 0 .. (NumClasses - 1)
ArraysOfLen(n) == [1..n -> Labels]
LabelArrays == UNION {ArraysOfLen(n) : n \in 1..MaxLen}

UniqueLabels(yt, yp) == {yt[i] : i \in DOMAIN yt} \cup {yp[i] : i \in DOMAIN yp}
Support(yt, c) == Cardinality({i \in DOMAIN yt : yt[i] = c})
TruePositives(yt, yp, c) == Cardinality({i \in DOMAIN yt : yt[i] = c /\ yp[i] = c})

\* check_consistent_length: the metrics raise ValueError on arrays of different length
ConsistentLength(yt, yp) == Len(yt) = Len(yp)

\* accuracy_score(y_true, y_pred): the fraction of positions that agree
accuracy_score(yt, yp) ==
  Rat(Cardinality({i \in DOMAIN yt : yt[i] = yp[i]}), Len(yt))

\* per-class scores; a zero denominator yields 0 (zero_division="warn")
ClassPrecision(yt, yp, c) ==
  IF Support(yp, c) = 0 THEN <<0, 1>> ELSE Rat(TruePositives(yt, yp, c), Support(yp, c))
\* (mutant) recall taken over the predicted instead of the true members of the class
ClassRecallOverPredicted(yt, yp, c) ==
  IF Support(yp, c) = 0 THEN <<0, 1>> ELSE Rat(TruePositives(yt, yp, c), Support(yp, c))
ClassRecall(yt, yp, c) ==
  IF Support(yt, c) = 0 THEN <<0, 1>> ELSE Rat(TruePositives(yt, yp, c), Support(yt, c))
\* (mutant) the harmonic mean without its factor 2
ClassF1Halved(yt, yp, c) ==
  IF Support(yt, c) + Support(yp, c) = 0 THEN <<0, 1>>
  ELSE Rat(TruePositives(yt, yp, c), Support(yt, c) + Support(yp, c))
ClassF1(yt, yp, c) ==
  IF Support(yt, c) + Support(yp, c) = 0 THEN <<0, 1>>
  ELSE Rat(2 * TruePositives(yt, yp, c), Support(yt, c) + Support(yp, c))

\* average="weighted": the mean of the per-class scores weighted by support
\* (scores[c] is the score of class c)
WeightedAverage(yt, yp, scores) ==
  LET term == [c \in UniqueLabels(yt, yp) |->
                 RatMul(Rat(Support(yt, c), Len(yt)), scores[c])]
  IN RatSum(UniqueLabels(yt, yp), term)

\* precision_recall_fscore_support(y_true, y_pred, average="weighted")
precision_recall_fscore_support(yt, yp) ==
  LET L == UniqueLabels(yt, yp)
  IN << WeightedAverage(yt, yp, [c \in L |-> ClassPrecision(yt, yp, c)]),
        WeightedAverage(yt, yp, [c \in L |-> ClassRecall(yt, yp, c)]),
        WeightedAverage(yt, yp, [c \in L |-> ClassF1(yt, yp, c)]),
        "None" >>

(* ---------------- state ---------------- *)
VARIABLES
  pc,        \* "idle", "fault", or "L<n>": line n of src/main.py is about to run
  calls,     \* number of calls the script has started; the running call's id
  fault,     \* line of the library call that raised, 0 while none has
  returned,  \* name of the function that returned to the script last
  stack,     \* call frames (arguments and locals), the running function last; the
             \* frame of a call that returned to the script stays until the next call
  result,    \* the value the last call returned to the script
  disk,      \* what the file system holds under each path before the script runs
  written,   \* files written by the functions: [name, by (call id), fn]
  stdout,    \* the lines printed, each a tuple of its parts
  plt,       \* matplotlib.pyplot: [figures, gcf], the open figures and the current one
  shown,     \* the figures plt.show() has displayed during the running call
  handles    \* the zip-file handles opened: [by (call id), state]

vars == <<pc, calls, fault, returned, stack, result, disk, written, stdout, plt, shown, handles>>

Unset == <<>>     \* a local that has not been assigned

Top == stack[Len(stack)]
SetTop(frame) == [stack EXCEPT ![Len(stack)] = frame]

\* (mutant) the exception is caught and dropped, the call ends as if it had returned
RaiseSwallowed(line) == pc' = "idle" /\ fault' = line

\* an uncaught exception raised by the statement at `line`: the function stops there
Raise(line) == pc' = "fault" /\ fault' = line

\* the running function returns `value` to the script
Return(value) ==
  /\ pc' = "idle"
  /\ returned' = Top.fn
  /\ result' = value

\* nothing written or printed, no figure, no handle
InitLibraries ==
  /\ written = {} /\ stdout = <<>>
  /\ plt = [figures |-> <<>>, gcf |-> 0] /\ shown = <<>>
  /\ handles = <<>>

(* ---------------- calculate_results (lines 161-170) ---------------- *)
calculate_results_frame(yt, yp) ==
  [fn |-> "calculate_results", y_true |-> yt, y_pred |-> yp,
   model_accuracy |-> Unset, prfs |-> Unset, model_results |-> Unset]

calculate_results_162 ==
  /\ pc = "L162"
  /\ IF ConsistentLength(Top.y_true, Top.y_pred)
     THEN /\ stack' = SetTop([Top EXCEPT !.model_accuracy =
                                RatMul(accuracy_score(Top.y_true, Top.y_pred), <<100, 1>>)])
          /\ pc' = "L164"
          /\ UNCHANGED fault
     ELSE /\ Raise(162)
          /\ UNCHANGED stack
  /\ UNCHANGED <<calls, returned, result, disk, written, stdout, plt, shown, handles>>

calculate_results_164 ==
  /\ pc = "L164"
  /\ stack' = SetTop([Top EXCEPT !.prfs =
                        precision_recall_fscore_support(Top.y_true, Top.y_pred)])
  /\ pc' = "L165"
  /\ UNCHANGED <<calls, fault, returned, result, disk, written, stdout, plt, shown, handles>>

calculate_results_165 ==
  /\ pc = "L165"
  /\ LET model_results == [accuracy |-> Top.model_accuracy, precision |-> Top.prfs[1],
                           recall |-> Top.prfs[2], f1 |-> Top.prfs[3]]
     IN /\ stack' = SetTop([Top EXCEPT !.model_results = model_results])
        /\ Return(model_results)
  /\ UNCHANGED <<calls, fault, disk, written, stdout, plt, shown, handles>>

InitResults ==
  /\ pc = "L162" /\ calls = 1 /\ fault = 0 /\ returned = "" /\ result = Unset
  /\ \E yt \in LabelArrays, yp \in LabelArrays : stack = <<calculate_results_frame(yt, yp)>>
  /\ disk = <<>>
  /\ InitLibraries

NextResults == calculate_results_162 \/ calculate_results_164 \/ calculate_results_165

SpecResults == InitResults /\ [][NextResults]_vars

(* ---------------- walk_through_dir (lines 156-158) ---------------- *)
MaxDirs == 3         \* most directories in a tree
MaxFiles == 5        \* most files directly in one directory

\* a directory tree: directory 1 is the root, parent[d] < d is the directory holding d,
\* files[d] the number of files directly in d, denied the directories that cannot be
\* listed (no read permission); no directory at all: the path is missing
TreesOf(n) ==
  {t \in [parent : [1..n -> 0..n], files : [1..n -> 0..MaxFiles],
          denied : {{}} \cup {{d} : d \in 1..n}] :
     \A d \in 1..n : IF d = 1 THEN t.parent[d] = 0
                      ELSE t.parent[d] \in 1..(d - 1)}
Trees == UNION {TreesOf(n) : n \in 0..MaxDirs}

SubDirs(tree, d) == {c \in DOMAIN tree.parent : tree.parent[c] = d}

\* the elements of a set of numbers, in descending order
RECURSIVE Descending(_)
Descending(S) ==
  IF S = {} THEN <<>>
  ELSE LET m == CHOOSE x \in S : \A y \in S : y <= x IN <<m>> \o Descending(S \ {m})

\* os.walk(top): the stack of directories still to visit, the next one last
os_walk(tree) == IF DOMAIN tree.parent = {} THEN <<>> ELSE <<1>>

\* os.walk, onerror=None: a directory whose listing fails is dropped without a word
RECURSIVE os_walk_skip(_, _)
os_walk_skip(tree, pending) ==
  IF pending # <<>> /\ pending[Len(pending)] \in tree.denied
  THEN os_walk_skip(tree, SubSeq(pending, 1, Len(pending) - 1))
  ELSE pending

\* (mutant) a walk that does not descend into the subdirectories
os_walk_next_flat(tree, pending) ==
  LET d == pending[Len(pending)]
  IN [dirpath |-> d,
      dirnames |-> SubDirs(tree, d),
      filenames |-> tree.files[d],
      pending |-> SubSeq(pending, 1, Len(pending) - 1)]

\* one step of the generator at a directory it can list: the triple it yields (the
\* file names as their number) and the stack it is left with
os_walk_next(tree, pending) ==
  LET d == pending[Len(pending)]
  IN [dirpath |-> d,
      dirnames |-> SubDirs(tree, d),
      filenames |-> tree.files[d],
      pending |-> SubSeq(pending, 1, Len(pending) - 1) \o Descending(SubDirs(tree, d))]

walk_through_dir_frame(dir_path) ==
  [fn |-> "walk_through_dir", dir_path |-> dir_path, walk |-> Unset]

\* line 156-157: the call of os.walk, which creates the generator
walk_through_dir_156 ==
  /\ pc = "L156"
  /\ stack' = SetTop([Top EXCEPT !.walk = os_walk(disk[Top.dir_path])])
  /\ pc' = "L157"
  /\ UNCHANGED <<calls, fault, returned, result, disk, written, stdout, plt, shown, handles>>

\* lines 157-158: one iteration of the loop prints one line
walk_through_dir_157 ==
  /\ pc = "L157"
  /\ os_walk_skip(disk[Top.dir_path], Top.walk) # <<>>
  /\ LET y == os_walk_next(disk[Top.dir_path], os_walk_skip(disk[Top.dir_path], Top.walk))
     IN /\ stdout' = Append(stdout, <<"There are", Cardinality(y.dirnames), "directories and",
                                      y.filenames, "images in", y.dirpath>>)
        /\ stack' = SetTop([Top EXCEPT !.walk = y.pending])
  /\ UNCHANGED <<pc, calls, fault, returned, result, disk, written, plt, shown, handles>>

\* the generator is exhausted: the loop and the function end
walk_through_dir_end ==
  /\ pc = "L157"
  /\ os_walk_skip(disk[Top.dir_path], Top.walk) = <<>>
  /\ stack' = SetTop([Top EXCEPT !.walk = <<>>])
  /\ Return("None")
  /\ UNCHANGED <<calls, fault, disk, written, stdout, plt, shown, handles>>

InitWalk ==
  /\ pc = "L156" /\ calls = 1 /\ fault = 0 /\ returned = "" /\ result = Unset
  /\ stack = <<walk_through_dir_frame("dataset")>>
  /\ \E t \in Trees : disk = [path \in {"dataset"} |-> t]
  /\ InitLibraries

NextWalk == walk_through_dir_156 \/ walk_through_dir_157 \/ walk_through_dir_end

SpecWalk == InitWalk /\ [][NextWalk]_vars

(* ---------------- load_and_prep_image (lines 13-23) ---------------- *)
DefaultImgShape == 224
PixelLevels == {0, 100, 255}     \* sample values of a decoded uint8 pixel
ImageSizes == {8, 300}           \* sample heights and widths of the files
ImgShapes == {DefaultImgShape, 32}

\* what a path can hold: nothing, bytes that are no JPEG, or a JPEG with 1 (grayscale)
\* or 3 (colour) channels whose pixel values span lo..hi
NoFile == [kind |-> "missing"]
NotJpeg == [kind |-> "garbage"]
PixelRanges == {r \in PixelLevels \X PixelLevels : r[1] <= r[2]}
JpegFiles ==
  {[kind |-> "jpeg", height |-> h, width |-> w, channels |-> c, lo |-> r[1], hi |-> r[2]] :
     h \in ImageSizes, w \in ImageSizes, c \in {1, 3}, r \in PixelRanges}

\* a tensor: its shape and the bounds lo <= hi (rationals) its values lie within
Tensor(shape, lo, hi) == [shape |-> shape, lo |-> lo, hi |-> hi]

\* (mutant) decode_jpeg(contents, channels=3): always three channels
decode_jpeg_rgb(file) ==
  Tensor(<<file.height, file.width, 3>>, <<file.lo, 1>>, <<file.hi, 1>>)

\* tf.image.decode_jpeg(contents), channels=0: as many channels as the file has
decode_jpeg(file) ==
  Tensor(<<file.height, file.width, file.channels>>, <<file.lo, 1>>, <<file.hi, 1>>)

\* tf.image.resize(images, [h, w]): bilinear, every output value a convex combination
\* of input values; the channel dimension is kept
resize(t, size) == Tensor(<<size[1], size[2], t.shape[3]>>, t.lo, t.hi)

\* img / 255.
Normalize(t) == Tensor(t.shape, RatMul(t.lo, <<1, 255>>), RatMul(t.hi, <<1, 255>>))

load_and_prep_image_frame(filename, img_shape, normalize) ==
  [fn |-> "load_and_prep_image", filename |-> filename, img_shape |-> img_shape,
   normalize |-> normalize, img |-> Unset]

\* line 14: tf.io.read_file raises NotFoundError when the path holds nothing
load_and_prep_image_14 ==
  /\ pc = "L14"
  /\ IF disk[Top.filename].kind = "missing"
     THEN Raise(14) /\ UNCHANGED stack
     ELSE /\ stack' = SetTop([Top EXCEPT !.img = disk[Top.filename]])
          /\ pc' = "L16"
          /\ UNCHANGED fault
  /\ UNCHANGED <<calls, returned, result, disk, written, stdout, plt, shown, handles>>

\* line 16: tf.image.decode_jpeg raises InvalidArgumentError on bytes that are no JPEG
load_and_prep_image_16 ==
  /\ pc = "L16"
  /\ IF Top.img.kind # "jpeg"
     THEN Raise(16) /\ UNCHANGED stack
     ELSE /\ stack' = SetTop([Top EXCEPT !.img = decode_jpeg(Top.img)])
          /\ pc' = "L18"
          /\ UNCHANGED fault
  /\ UNCHANGED <<calls, returned, result, disk, written, stdout, plt, shown, handles>>

load_and_prep_image_18 ==
  /\ pc = "L18"
  /\ stack' = SetTop([Top EXCEPT !.img = resize(Top.img, <<Top.img_shape, Top.img_shape>>)])
  /\ pc' = "L20"
  /\ UNCHANGED <<calls, fault, returned, result, disk, written, stdout, plt, shown, handles>>

\* lines 20-23: the value returned, to the script or to pred_and_plot (line 69)
load_and_prep_image_20 ==
  /\ pc = "L20"
  /\ LET value == IF Top.normalize THEN Normalize(Top.img) ELSE Top.img
     IN IF Len(stack) = 1
        THEN Return(value) /\ UNCHANGED stack
        ELSE /\ stack' = [SubSeq(stack, 1, Len(stack) - 1) EXCEPT ![Len(stack) - 1].img = value]
             /\ pc' = "L71"
             /\ UNCHANGED <<returned, result>>
  /\ UNCHANGED <<calls, fault, disk, written, stdout, plt, shown, handles>>

InitImage ==
  /\ pc = "L14" /\ calls = 1 /\ fault = 0 /\ returned = "" /\ result = Unset
  /\ \E img_shape \in ImgShapes, normalize \in BOOLEAN :
       stack = <<load_and_prep_image_frame("photo.jpg", img_shape, normalize)>>
  /\ \E file \in JpegFiles \cup {NoFile, NotJpeg} : disk = [path \in {"photo.jpg"} |-> file]
  /\ InitLibraries

NextImage ==
  \/ load_and_prep_image_14 \/ load_and_prep_image_16
  \/ load_and_prep_image_18 \/ load_and_prep_image_20

SpecImage == InitImage /\ [][NextImage]_vars

(* ---------------- matplotlib.pyplot ---------------- *)
\* a figure: the call that created it, its current axes, and what was drawn into it
Figure(by) == [by |-> by, gca |-> "111", artists |-> <<>>]
Artist(by, axes, label, data) == [by |-> by, axes |-> axes, label |-> label, data |-> data]

\* plt.figure(): a new figure, which becomes the current one
plt_figure(p, by) ==
  [figures |-> Append(p.figures, Figure(by)), gcf |-> Len(p.figures) + 1]

\* plt.gcf(): the current figure; one is created only when there is none
plt_gcf(p, by) == IF p.gcf = 0 THEN plt_figure(p, by) ELSE p

\* plt.subplot(...): the axes of the current figure that later calls draw into
plt_subplot(p, by, axes) ==
  LET q == plt_gcf(p, by) IN [q EXCEPT !.figures[q.gcf].gca = axes]

\* plt.plot / imshow / title / xlabel / legend ...: draw into the current axes of the
\* current figure; items are <<label, data>> pairs
plt_draw(p, by, items) ==
  LET q == plt_gcf(p, by)
      axes == q.figures[q.gcf].gca
      arts == [i \in DOMAIN items |-> Artist(by, axes, items[i][1], items[i][2])]
  IN [q EXCEPT !.figures[q.gcf].artists = @ \o arts]

\* plt.show() displays every open figure; the figures are closed once displayed
plt_show(p) == [figures |-> <<>>, gcf |-> 0]

LineLabels == {"training_loss", "val_loss", "accuracy", "val_accuracy",
               "Training Accuracy", "Validation Accuracy",
               "Training Loss", "Validation Loss", "Start Fine Tuning"}

\* the lines (plt.plot of a list) in the current axes of the current figure
CurrentLines(p) ==
  LET f == p.figures[p.gcf]
  IN {i \in DOMAIN f.artists : f.artists[i].axes = f.gca /\ f.artists[i].label \in LineLabels}

\* plt.ylim(): the y limits of the current axes, taken at the extremes of the
\* plotted data (0..1 for empty axes)
plt_ylim(p) ==
  LET f == p.figures[p.gcf]
      ys == UNION {{f.artists[i].data[2][k] : k \in DOMAIN f.artists[i].data[2]} :
                     i \in CurrentLines(p)}
  IN IF ys = {} THEN <<0, 1>>
     ELSE <<CHOOSE v \in ys : \A w \in ys : v <= w, CHOOSE v \in ys : \A w \in ys : w <= v>>

\* range(n)
Range(n) == [i \in 1..n |-> i - 1]

(* ---------------- unzip_data (lines 150-153) ---------------- *)
ZipFiles ==
  [good |-> [kind |-> "zip", members |-> <<"a.jpg", "b.jpg">>, bad |-> 0],   \* extracts
   corrupt |-> [kind |-> "zip", members |-> <<"a.jpg", "b.jpg">>, bad |-> 2]] \* 2nd member fails its CRC

unzip_data_frame(filename) == [fn |-> "unzip_data", filename |-> filename, zip_ref |-> 0]

\* the members extractall writes: all of them, or those before the first bad one
Extracted(zip) ==
  IF zip.bad = 0 THEN zip.members ELSE SubSeq(zip.members, 1, zip.bad - 1)

\* line 151: zipfile.ZipFile(filename, "r") raises FileNotFoundError / BadZipFile and
\* then leaves no handle behind
unzip_data_151 ==
  /\ pc = "L151"
  /\ IF disk[Top.filename].kind # "zip"
     THEN Raise(151) /\ UNCHANGED <<stack, handles>>
     ELSE /\ handles' = Append(handles, [by |-> calls, state |-> "open"])
          /\ stack' = SetTop([Top EXCEPT !.zip_ref = Len(handles) + 1])
          /\ pc' = "L152"
          /\ UNCHANGED fault
  /\ UNCHANGED <<calls, returned, result, disk, written, stdout, plt, shown>>

\* (mutant) extraction inside try/finally: the handle is closed on the error path too
extractall_finally ==
  LET zip == disk[Top.filename]
  IN IF zip.bad # 0
     THEN /\ Raise(152)
          /\ handles' = [handles EXCEPT ![Top.zip_ref].state = "closed"]
     ELSE pc' = "L153" /\ UNCHANGED <<fault, handles>>

\* line 152, what follows the writes: raise, or go on to close
extractall_outcome ==
  IF disk[Top.filename].bad # 0
  THEN Raise(152) /\ UNCHANGED handles
  ELSE pc' = "L153" /\ UNCHANGED <<fault, handles>>

\* line 152: extractall writes the members in order and raises at the first bad one
unzip_data_152 ==
  /\ pc = "L152"
  /\ LET zip == disk[Top.filename]
         out == Extracted(zip)
     IN /\ written' = written \cup
              {[name |-> out[i], by |-> calls, fn |-> Top.fn] : i \in DOMAIN out}
        /\ extractall_outcome
  /\ UNCHANGED <<calls, returned, stack, result, disk, stdout, plt, shown>>

\* line 153: close, then the function returns None
unzip_data_153 ==
  /\ pc = "L153"
  /\ handles' = [handles EXCEPT ![Top.zip_ref].state = "closed"]
  /\ Return("None")
  /\ UNCHANGED <<calls, fault, stack, disk, written, stdout, plt, shown>>

(* ---------------- create_tensorboard_callback (lines 85-91) ---------------- *)
Timestamps == {"20240101-120000", "20240101-120001"}   \* readings of datetime.now()

create_tensorboard_callback_frame(dir_name, experiment_name) ==
  [fn |-> "create_tensorboard_callback", dir_name |-> dir_name,
   experiment_name |-> experiment_name, log_dir |-> Unset]

\* lines 86-91: the TensorBoard object is constructed (nothing is written before
\* training), the path is printed and the callback returned
create_tensorboard_callback_86 ==
  /\ pc = "L86"
  /\ \E now \in Timestamps :
       LET log_dir == <<Top.dir_name, "/", Top.experiment_name, "/", now>>
       IN /\ stack' = SetTop([Top EXCEPT !.log_dir = log_dir])
          /\ stdout' = Append(stdout, <<"Saving Tensorboard log files to:", log_dir>>)
          /\ Return([log_dir |-> log_dir])
  /\ UNCHANGED <<calls, fault, disk, written, plt, shown, handles>>

(* ---------------- training histories ---------------- *)
MaxEpochs == 2       \* most epochs in one history

Metrics == {"accuracy", "loss", "val_accuracy", "val_loss"}
MetricNo == [accuracy |-> 1, loss |-> 2, val_accuracy |-> 3, val_loss |-> 4]

\* History.history of run `run` after n epochs: a list per metric, every value distinct
History(run, n) == [m \in Metrics |-> [e \in 1..n |-> 100 * run + 10 * MetricNo[m] + e]]

\* a history recorded without metric m (e.g. no validation data)
Without(h, m) == [k \in (DOMAIN h) \ {m} |-> h[k]]

HistoriesOf(run) ==
  {History(run, n) : n \in 1..MaxEpochs}
    \cup {Without(History(run, 1), "val_loss"), Without(History(run, 1), "accuracy")}

\* the line of the first lookup history[key] that raises KeyError, 0 if none does;
\* lookups are <<line, key>> in program order
RECURSIVE FirstKeyError(_, _)
FirstKeyError(h, lookups) ==
  IF lookups = <<>> THEN 0
  ELSE IF lookups[1][2] \notin DOMAIN h THEN lookups[1][1]
  ELSE FirstKeyError(h, Tail(lookups))

(* ---------------- plot_loss_curves (lines 94-114) ---------------- *)
plot_loss_curves_frame(history) ==
  [fn |-> "plot_loss_curves", history |-> history, epochs |-> Unset]

\* lines 95-101: the four lookups and the epoch range
plot_loss_curves_95 ==
  /\ pc = "L95"
  /\ LET err == FirstKeyError(Top.history, << <<95, "loss">>, <<96, "val_loss">>,
                                              <<98, "accuracy">>, <<99, "val_accuracy">> >>)
     IN IF err # 0
        THEN Raise(err) /\ UNCHANGED stack
        ELSE /\ stack' = SetTop([Top EXCEPT !.epochs = Range(Len(Top.history["loss"]))])
             /\ pc' = "L103"
             /\ UNCHANGED fault
  /\ UNCHANGED <<calls, returned, result, disk, written, stdout, plt, shown, handles>>

\* lines 103-107: the loss curves go to pyplot's current figure
plot_loss_curves_103 ==
  /\ pc = "L103"
  /\ plt' = plt_draw(plt, calls,
                     << <<"training_loss", <<Top.epochs, Top.history["loss"]>> >>,
                        <<"val_loss", <<Top.epochs, Top.history["val_loss"]>> >>,
                        <<"title", <<"Loss">> >>,
                        <<"xlabel", <<"Epochs">> >>,
                        <<"legend", <<>> >> >>)
  /\ pc' = "L109"
  /\ UNCHANGED <<calls, fault, returned, stack, result, disk, written, stdout, shown, handles>>

\* lines 109-114: a new figure for the accuracy curves; the function returns None
plot_loss_curves_109 ==
  /\ pc = "L109"
  /\ plt' = plt_draw(plt_figure(plt, calls), calls,
                     << <<"accuracy", <<Top.epochs, Top.history["accuracy"]>> >>,
                        <<"val_accuracy", <<Top.epochs, Top.history["val_accuracy"]>> >>,
                        <<"title", <<"Accuracy">> >>,
                        <<"xlabel", <<"Epochs">> >>,
                        <<"legend", <<>> >> >>)
  /\ Return("None")
  /\ UNCHANGED <<calls, fault, stack, disk, written, stdout, shown, handles>>

(* ---------------- compare_history (lines 117-147) ---------------- *)
DefaultInitialEpochs == 5

compare_history_frame(original_history, new_history, initial_epochs) ==
  [fn |-> "compare_history", original_history |-> original_history,
   new_history |-> new_history, initial_epochs |-> initial_epochs,
   total_acc |-> Unset, total_loss |-> Unset, total_val_acc |-> Unset,
   total_val_loss |-> Unset]

\* (mutant) the line one epoch too far to the right
StartFineTuningAtEpoch(initial_epochs) == <<initial_epochs, initial_epochs>>

\* the x data of the "Start Fine Tuning" line (lines 134 and 142)
StartFineTuning(initial_epochs) == <<initial_epochs - 1, initial_epochs - 1>>

\* lines 118-128: lookups in the original history, then lookup and list
\* concatenation (a new list) per metric of the new history
compare_history_118 ==
  /\ pc = "L118"
  /\ LET o == Top.original_history
         n == Top.new_history
         err1 == FirstKeyError(o, << <<118, "accuracy">>, <<119, "loss">>,
                                     <<121, "val_accuracy">>, <<122, "val_loss">> >>)
         err2 == FirstKeyError(n, << <<124, "accuracy">>, <<125, "loss">>,
                                     <<127, "val_accuracy">>, <<128, "val_loss">> >>)
     IN IF err1 # 0 THEN Raise(err1) /\ UNCHANGED stack
        ELSE IF err2 # 0
        THEN /\ Raise(err2)
             /\ stack' = SetTop([Top EXCEPT
                   !.total_acc = IF err2 > 124 THEN o["accuracy"] \o n["accuracy"] ELSE @,
                   !.total_loss = IF err2 > 125 THEN o["loss"] \o n["loss"] ELSE @,
                   !.total_val_acc = IF err2 > 127 THEN o["val_accuracy"] \o n["val_accuracy"]
                                     ELSE @])
        ELSE /\ stack' = SetTop([Top EXCEPT
                   !.total_acc = o["accuracy"] \o n["accuracy"],
                   !.total_loss = o["loss"] \o n["loss"],
                   !.total_val_acc = o["val_accuracy"] \o n["val_accuracy"],
                   !.total_val_loss = o["val_loss"] \o n["val_loss"]])
             /\ pc' = "L130"
             /\ UNCHANGED fault
  /\ UNCHANGED <<calls, returned, result, disk, written, stdout, plt, shown, handles>>

\* lines 130-137: a new figure, the accuracy subplot
compare_history_130 ==
  /\ pc = "L130"
  /\ LET p1 == plt_subplot(plt_figure(plt, calls), calls, "211")
         p2 == plt_draw(p1, calls,
                 << <<"Training Accuracy", <<Range(Len(Top.total_acc)), Top.total_acc>> >>,
                    <<"Validation Accuracy",
                      <<Range(Len(Top.total_val_acc)), Top.total_val_acc>> >> >>)
     IN plt' = plt_draw(p2, calls,
                 << <<"Start Fine Tuning", <<StartFineTuning(Top.initial_epochs), plt_ylim(p2)>> >>,
                    <<"legend", <<"lower right">> >>,
                    <<"title", <<"Training and Validation Accuracy">> >> >>)
  /\ pc' = "L139"
  /\ UNCHANGED <<calls, fault, returned, stack, result, disk, written, stdout, shown, handles>>

\* lines 139-146: the loss subplot of the same figure
compare_history_139 ==
  /\ pc = "L139"
  /\ LET p1 == plt_subplot(plt, calls, "212")
         p2 == plt_draw(p1, calls,
                 << <<"Training Loss", <<Range(Len(Top.total_loss)), Top.total_loss>> >>,
                    <<"Validation Loss",
                      <<Range(Len(Top.total_val_loss)), Top.total_val_loss>> >> >>)
     IN plt' = plt_draw(p2, calls,
                 << <<"Start Fine Tuning", <<StartFineTuning(Top.initial_epochs), plt_ylim(p2)>> >>,
                    <<"legend", <<"upper right">> >>,
                    <<"title", <<"Training and Validation Loss">> >>,
                    <<"xlabel", <<"epoch">> >> >>)
  /\ pc' = "L147"
  /\ UNCHANGED <<calls, fault, returned, stack, result, disk, written, stdout, shown, handles>>

\* line 147: plt.show(), then the function returns None
compare_history_147 ==
  /\ pc = "L147"
  /\ shown' = plt.figures
  /\ plt' = plt_show(plt)
  /\ Return("None")
  /\ UNCHANGED <<calls, fault, stack, disk, written, stdout, handles>>

(* ---------------- make_confusion_matrix (lines 26-65) ---------------- *)
\* sklearn.metrics.confusion_matrix: cm[<<t, p>>] counts the samples of true label t
\* predicted as p, over the labels that occur in either array
confusion_matrix(yt, yp) ==
  LET L == UniqueLabels(yt, yp)
  IN [c \in L \X L |-> Cardinality({i \in DOMAIN yt : yt[i] = c[1] /\ yp[i] = c[2]})]

\* len(conf_mat): the number of classes
NumRows(cm) == Cardinality({c[1] : c \in DOMAIN cm})

make_confusion_matrix_frame(yt, yp, classes, savefig) ==
  [fn |-> "make_confusion_matrix", y_true |-> yt, y_pred |-> yp, classes |-> classes,
   figsize |-> <<10, 10>>, text_size |-> 18, norm |-> TRUE, savefig |-> savefig,
   cm |-> Unset, fig |-> Unset]

\* lines 49-50: confusion_matrix raises ValueError on arrays of different length;
\* cm_norm is computed and never used
make_confusion_matrix_49 ==
  /\ pc = "L49"
  /\ IF ConsistentLength(Top.y_true, Top.y_pred)
     THEN /\ stack' = SetTop([Top EXCEPT !.cm = confusion_matrix(Top.y_true, Top.y_pred)])
          /\ pc' = "L52"
          /\ UNCHANGED fault
     ELSE Raise(49) /\ UNCHANGED stack
  /\ UNCHANGED <<calls, returned, result, disk, written, stdout, plt, shown, handles>>

\* lines 52-57: mlxtend's plot_confusion_matrix draws into a figure of its own; it
\* raises when class names are given and their number is not that of the classes.
\* classes = <<>> stands for None
make_confusion_matrix_52 ==
  /\ pc = "L52"
  /\ IF Top.classes # <<>> /\ Len(Top.classes) # NumRows(Top.cm)
     THEN Raise(52) /\ UNCHANGED <<stack, plt>>
     ELSE /\ plt' = plt_draw(plt_figure(plt, calls), calls,
                      << <<"confusion_matrix", <<Top.cm, Top.norm, Top.classes, Top.figsize>> >>,
                         <<"colorbar", <<>> >> >>)
          /\ stack' = SetTop([Top EXCEPT !.fig = plt'.figures[plt'.gcf]])
          /\ pc' = "L59"
          /\ UNCHANGED fault
  /\ UNCHANGED <<calls, returned, result, disk, written, stdout, shown, handles>>

\* lines 59-62: the labels and the title, then plt.show()
make_confusion_matrix_59 ==
  /\ pc = "L59"
  /\ LET p == plt_draw(plt, calls,
                << <<"xlabel", <<"Predictions", Top.text_size>> >>,
                   <<"ylabel", <<"Actuals", Top.text_size>> >>,
                   <<"title", <<"Confusion Matrix", Top.text_size>> >> >>)
     IN /\ shown' = p.figures
        /\ plt' = plt_show(p)
        /\ stack' = SetTop([Top EXCEPT !.fig = p.figures[p.gcf]])
  /\ pc' = "L64"
  /\ UNCHANGED <<calls, fault, returned, result, disk, written, stdout, handles>>

\* (mutant) the figure is saved whatever savefig is
savefig_always(files) ==
  files \cup {[name |-> "confusion_matrix.png", by |-> calls, fn |-> Top.fn]}

\* lines 64-65: if savefig: fig.savefig("confusion_matrix.png")
savefig_if_asked(files) ==
  IF Top.savefig
  THEN files \cup {[name |-> "confusion_matrix.png", by |-> calls, fn |-> Top.fn]}
  ELSE files

\* lines 64-65: the figure is saved when savefig is true; the function returns None
make_confusion_matrix_64 ==
  /\ pc = "L64"
  /\ written' = savefig_if_asked(written)
  /\ Return("None")
  /\ UNCHANGED <<calls, fault, stack, disk, stdout, plt, shown, handles>>

(* ---------------- pred_and_plot (lines 68-82) ---------------- *)
MaxOutputs == 3      \* most scores in one model output

ScoreLevels == {2, 7}      \* scores in tenths: 0.2 and 0.7

\* the array model.predict returns: rank 2 is shape (1, n), rank 3 is shape (1, 1, n),
\* scores holding the n innermost values
PredOutputs ==
  {[rank |-> 2, scores |-> sc] : sc \in UNION {[1..n -> ScoreLevels] : n \in 1..MaxOutputs}}
    \cup {[rank |-> 3, scores |-> sc] : sc \in UNION {[1..n -> ScoreLevels] : n \in 1..2}}

\* a trained model: the channels its input layer takes and the array it predicts
Models == {[channels |-> 3, output |-> o] : o \in PredOutputs}

\* len(pred[0])
LenPred0(pred) == IF pred.rank = 2 THEN Len(pred.scores) ELSE 1

\* ndarray.argmax(): the 0-based position of the first largest value
ArgMax(scores) ==
  (CHOOSE i \in DOMAIN scores :
     /\ \A j \in DOMAIN scores : scores[j] <= scores[i]
     /\ \A j \in 1..(i - 1) : scores[j] < scores[i]) - 1

\* int(tf.round(x)) of a score in tenths: half rounds to even
Round(tenths) == IF tenths > 5 THEN 1 ELSE 0

\* lines 73-78: the line that raises (0 if none) and the class chosen.
\* Line 74 / 78: IndexError for an index past the end of class_names.
\* Line 75: pred[0][0] of a rank-2 array is a scalar, len() of it raises TypeError.
\* Line 76: argmax is not called, a list indexed by a method raises TypeError.
SelectClass(pred, class_names) ==
  LET pick(line, k) == IF k < Len(class_names)
                       THEN [raises |-> 0, pred_class |-> class_names[k + 1]]
                       ELSE [raises |-> line, pred_class |-> Unset]
  IN IF LenPred0(pred) > 1 THEN pick(74, ArgMax(pred.scores))
     ELSE IF pred.rank = 2 THEN [raises |-> 75, pred_class |-> Unset]
     ELSE IF Len(pred.scores) > 1 THEN [raises |-> 76, pred_class |-> Unset]
     ELSE pick(78, Round(pred.scores[1]))

pred_and_plot_frame(model, filename, class_names) ==
  [fn |-> "pred_and_plot", model |-> model, filename |-> filename,
   class_names |-> class_names, img |-> Unset, pred |-> Unset, pred_class |-> Unset]

\* line 69: the call of load_and_prep_image with its default arguments
pred_and_plot_69 ==
  /\ pc = "L69"
  /\ stack' = Append(stack, load_and_prep_image_frame(Top.filename, DefaultImgShape, TRUE))
  /\ pc' = "L14"
  /\ UNCHANGED <<calls, fault, returned, result, disk, written, stdout, plt, shown, handles>>

\* line 71: model.predict raises ValueError when the image has not the channels
\* the model's input takes
pred_and_plot_71 ==
  /\ pc = "L71"
  /\ IF Top.img.shape[3] # Top.model.channels
     THEN Raise(71) /\ UNCHANGED stack
     ELSE /\ stack' = SetTop([Top EXCEPT !.pred = Top.model.output])
          /\ pc' = "L73"
          /\ UNCHANGED fault
  /\ UNCHANGED <<calls, returned, result, disk, written, stdout, plt, shown, handles>>

pred_and_plot_73 ==
  /\ pc = "L73"
  /\ LET sel == SelectClass(Top.pred, Top.class_names)
     IN IF sel.raises # 0
        THEN Raise(sel.raises) /\ UNCHANGED stack
        ELSE /\ stack' = SetTop([Top EXCEPT !.pred_class = sel.pred_class])
             /\ pc' = "L80"
             /\ UNCHANGED fault
  /\ UNCHANGED <<calls, returned, result, disk, written, stdout, plt, shown, handles>>

\* lines 80-82: the image and its title go to pyplot's current figure; returns None
pred_and_plot_80 ==
  /\ pc = "L80"
  /\ plt' = plt_draw(plt, calls, << <<"image", <<Top.img>> >>,
                                    <<"title", <<"Prediction:", Top.pred_class>> >>,
                                    <<"axis", <<FALSE>> >> >>)
  /\ Return("None")
  /\ UNCHANGED <<calls, fault, stack, disk, written, stdout, shown, handles>>

(* ---------------- the script that calls the functions ---------------- *)
MaxCalls == 2        \* calls the script makes

\* the file system the script runs on
ScriptDisk ==
  [path \in {"rgb.jpg", "gray.jpg", "broken.jpg", "missing.jpg",
             "data.zip", "corrupt.zip", "missing.zip", "dataset", "guarded", "nowhere"} |->
     CASE path = "rgb.jpg" ->
            [kind |-> "jpeg", height |-> 300, width |-> 300, channels |-> 3, lo |-> 0, hi |-> 255]
       [] path = "gray.jpg" ->
            [kind |-> "jpeg", height |-> 300, width |-> 300, channels |-> 1, lo |-> 0, hi |-> 255]
       [] path = "broken.jpg" -> NotJpeg
       [] path = "data.zip" -> ZipFiles.good
       [] path = "corrupt.zip" -> ZipFiles.corrupt
       [] path = "dataset" -> [parent |-> <<0, 1, 1>>, files |-> <<5, 1, 0>>, denied |-> {}]
       [] path = "guarded" -> [parent |-> <<0, 1>>, files |-> <<1, 2>>, denied |-> {2}]
       [] path = "nowhere" -> [parent |-> <<>>, files |-> <<>>, denied |-> {}]
       [] OTHER -> NoFile]

ImagePaths == {"rgb.jpg", "gray.jpg", "broken.jpg", "missing.jpg"}
ZipPaths == {"data.zip", "corrupt.zip", "missing.zip", "broken.jpg"}
DirPaths == {"dataset", "guarded", "nowhere"}

\* pairs <<y_true, y_pred>> the script passes: partly wrong, all right, lengths differ
ScriptLabelPairs ==
  { << <<0, 1, 1>>, <<0, 1, 0>> >>, << <<0, 1>>, <<0, 1>> >>, << <<0, 1>>, <<1>> >> }
ClassLists == {<<>>, <<"cat", "dog">>}
ClassNameLists == {<<"cat", "dog">>, <<"cat", "dog", "bird">>}
InitialEpochs == (1..MaxEpochs) \cup {DefaultInitialEpochs}

NoCall == [fn |-> ""]

\* the script calls a function: a fresh frame, entered at its first line
Call(frame, line) ==
  /\ pc = "idle"
  /\ calls < MaxCalls
  /\ calls' = calls + 1
  /\ stack' = <<frame>>
  /\ pc' = line
  /\ returned' = ""
  /\ result' = Unset
  /\ shown' = <<>>
  /\ UNCHANGED <<fault, disk, written, stdout, plt, handles>>

call_load_and_prep_image ==
  \E filename \in ImagePaths, img_shape \in ImgShapes, normalize \in BOOLEAN :
    Call(load_and_prep_image_frame(filename, img_shape, normalize), "L14")

call_make_confusion_matrix ==
  \E y \in ScriptLabelPairs, classes \in ClassLists, savefig \in BOOLEAN :
    Call(make_confusion_matrix_frame(y[1], y[2], classes, savefig), "L49")

call_pred_and_plot ==
  \E model \in Models, filename \in ImagePaths, class_names \in ClassNameLists :
    Call(pred_and_plot_frame(model, filename, class_names), "L69")

call_create_tensorboard_callback ==
  Call(create_tensorboard_callback_frame("logs", "experiment_1"), "L86")

call_plot_loss_curves ==
  \E history \in HistoriesOf(1) : Call(plot_loss_curves_frame(history), "L95")

call_compare_history ==
  \E original_history \in HistoriesOf(1), new_history \in HistoriesOf(2),
     initial_epochs \in InitialEpochs :
    Call(compare_history_frame(original_history, new_history, initial_epochs), "L118")

call_unzip_data ==
  \E filename \in ZipPaths : Call(unzip_data_frame(filename), "L151")

call_walk_through_dir ==
  \E dir_path \in DirPaths : Call(walk_through_dir_frame(dir_path), "L156")

call_calculate_results ==
  \E y \in ScriptLabelPairs : Call(calculate_results_frame(y[1], y[2]), "L162")

Init ==
  /\ pc = "idle" /\ calls = 0 /\ fault = 0 /\ returned = "" /\ result = Unset
  /\ stack = <<NoCall>>
  /\ disk = ScriptDisk
  /\ InitLibraries

Next ==
  \/ call_load_and_prep_image \/ call_make_confusion_matrix \/ call_pred_and_plot
  \/ call_create_tensorboard_callback \/ call_plot_loss_curves \/ call_compare_history
  \/ call_unzip_data \/ call_walk_through_dir \/ call_calculate_results
  \/ load_and_prep_image_14 \/ load_and_prep_image_16
  \/ load_and_prep_image_18 \/ load_and_prep_image_20
  \/ make_confusion_matrix_49 \/ make_confusion_matrix_52
  \/ make_confusion_matrix_59 \/ make_confusion_matrix_64
  \/ pred_and_plot_69 \/ pred_and_plot_71 \/ pred_and_plot_73 \/ pred_and_plot_80
  \/ create_tensorboard_callback_86
  \/ plot_loss_curves_95 \/ plot_loss_curves_103 \/ plot_loss_curves_109
  \/ compare_history_118 \/ compare_history_130 \/ compare_history_139
  \/ compare_history_147
  \/ unzip_data_151 \/ unzip_data_152 \/ unzip_data_153
  \/ walk_through_dir_156 \/ walk_through_dir_157 \/ walk_through_dir_end
  \/ calculate_results_162 \/ calculate_results_164 \/ calculate_results_165

Spec == Init /\ [][Next]_vars

(***************************************************************************)
(* Properties                                                              *)
(***************************************************************************)
InUnit(q) == RatLeq(<<0, 1>>, q) /\ RatLeq(q, <<1, 1>>)
Running == pc \notin {"idle", "fault"}

(* ---- calculate_results, checked under SpecResults ---- *)

\* C1: on identical true and predicted arrays calculate_results returns a dictionary
\* with exactly the keys accuracy, precision, recall, f1, with accuracy = 100 and
\* precision = recall = f1 = 1.
C1_IdenticalArraysScorePerfect ==
  (pc = "idle" /\ Top.y_true = Top.y_pred) =>
     /\ DOMAIN result = {"accuracy", "precision", "recall", "f1"}
     /\ result.accuracy = <<100, 1>>
     /\ result.precision = <<1, 1>>
     /\ result.recall = <<1, 1>>
     /\ result.f1 = <<1, 1>>

\* identical arrays of three samples in more than one class have been scored
C1_Witness ==
  /\ pc = "idle" /\ returned = "calculate_results"
  /\ Top.y_true = Top.y_pred
  /\ Len(Top.y_true) = 3
  /\ Cardinality(UniqueLabels(Top.y_true, Top.y_pred)) > 1
  /\ result.f1 = <<1, 1>>

\* C10: for equal-length non-empty arrays the accuracy is 100 times the fraction of
\* agreeing positions (so within 0..100), precision, recall and f1 lie within 0..1,
\* recall equals accuracy / 100, and the input arrays are not modified.
C10_ResultsInRange ==
  (pc = "idle") =>
     LET yt == Top.y_true
         yp == Top.y_pred
         agree == Cardinality({i \in DOMAIN yt : yt[i] = yp[i]})
     IN /\ Len(yt) = Len(yp) /\ Len(yt) >= 1
        /\ result.accuracy[1] * Len(yt) = 100 * agree * result.accuracy[2]
        /\ RatLeq(<<0, 1>>, result.accuracy) /\ RatLeq(result.accuracy, <<100, 1>>)
        /\ InUnit(result.precision) /\ InUnit(result.recall) /\ InUnit(result.f1)
        /\ RatMul(result.recall, <<100, 1>>) = result.accuracy

C10_InputsKept == Top'.y_true = Top.y_true /\ Top'.y_pred = Top.y_pred

C10_MetricsRelated == []C10_ResultsInRange /\ [][C10_InputsKept]_vars

\* arrays that agree in some positions only, with a class that is never predicted
C10_Witness ==
  /\ pc = "idle" /\ returned = "calculate_results"
  /\ Top.y_true = <<0, 1, 2>> /\ Top.y_pred = <<0, 1, 1>>
  /\ result.recall = <<2, 3>> /\ result.precision = <<1, 2>>

(* ---- walk_through_dir, checked under SpecWalk ---- *)
LinesFor(d) == {i \in DOMAIN stdout : stdout[i][6] = d}

\* every line printed is about a directory of the tree, printed once, and reports its
\* numbers of immediate subdirectories and immediate files
C2_LinesReportCounts ==
  LET tree == disk[Top.dir_path]
  IN /\ \A d \in DOMAIN tree.parent : Cardinality(LinesFor(d)) <= 1
     /\ \A i \in DOMAIN stdout :
          /\ stdout[i][6] \in DOMAIN tree.parent
          /\ stdout[i][2] = Cardinality(SubDirs(tree, stdout[i][6]))
          /\ stdout[i][4] = tree.files[stdout[i][6]]

\* C2 as stated: one line is printed per directory of the tree under dir_path, the
\* root included, and it reports that directory's numbers of immediate subdirectories
\* and immediate files; the number of lines is the number of directories.
C2_OneLinePerDirectory ==
  LET tree == disk[Top.dir_path]
  IN /\ C2_LinesReportCounts
     /\ (pc = "idle") =>
          /\ Len(stdout) = Cardinality(DOMAIN tree.parent)
          /\ \A d \in DOMAIN tree.parent : Cardinality(LinesFor(d)) = 1

\* the directories os.walk lists: those that can be listed and are reached from the
\* root through directories that can be listed
RECURSIVE Listed(_, _)
Listed(tree, d) ==
  /\ d \notin tree.denied
  /\ (d = 1 \/ Listed(tree, tree.parent[d]))

\* C2 as amended: one line is printed per directory that os.walk can list, none for a
\* directory that cannot be listed nor for what lies below it; each line reports the
\* numbers of immediate subdirectories and files; the number of lines is the number of
\* listed directories.
C2_OneLinePerListedDirectory ==
  LET tree == disk[Top.dir_path]
  IN /\ C2_LinesReportCounts
     /\ \A i \in DOMAIN stdout : Listed(tree, stdout[i][6])
     /\ (pc = "idle") =>
          /\ Len(stdout) = Cardinality({d \in DOMAIN tree.parent : Listed(tree, d)})
          /\ \A d \in DOMAIN tree.parent :
               Cardinality(LinesFor(d)) = IF Listed(tree, d) THEN 1 ELSE 0

\* a root with 2 subdirectories and 5 files has been walked, all directories listed
C2_Witness ==
  /\ pc = "idle" /\ returned = "walk_through_dir"
  /\ disk[Top.dir_path].denied = {}
  /\ Len(stdout) = 3
  /\ stdout[1] = <<"There are", 2, "directories and", 5, "images in", 1>>

(* ---- load_and_prep_image, checked under SpecImage ---- *)

\* the values of the result: with normalize the file's values in 0..255 divided by
\* 255, within 0..1; without normalize the values undivided, within 0..255
C3_Values ==
  LET file == disk[Top.filename]
  IN /\ Top.normalize =>
          /\ result.lo[1] * 255 = file.lo * result.lo[2]
          /\ result.hi[1] * 255 = file.hi * result.hi[2]
          /\ InUnit(result.lo) /\ InUnit(result.hi)
     /\ ~Top.normalize =>
          /\ result.lo = <<file.lo, 1>> /\ result.hi = <<file.hi, 1>>
          /\ RatLeq(<<0, 1>>, result.lo) /\ RatLeq(result.hi, <<255, 1>>)

\* C3 as stated: with the default img_shape the result has shape (224, 224, 3) for
\* every decodable JPEG, with the values as above.
C3_ShapeAlwaysRGB ==
  (pc = "idle" /\ Top.img_shape = DefaultImgShape) =>
     result.shape = <<224, 224, 3>> /\ C3_Values

\* C3 as amended: the result has shape (img_shape, img_shape, c), c the number of
\* channels of the JPEG, hence (224, 224, 3) by default for a colour JPEG only; with
\* normalize the values are the file's values in 0..255 divided by 255, within 0..1,
\* and without normalize they are returned undivided, within 0..255.
C3_ShapeFollowsChannels ==
  (pc = "idle") =>
     /\ result.shape = <<Top.img_shape, Top.img_shape, disk[Top.filename].channels>>
     /\ (Top.img_shape = DefaultImgShape /\ disk[Top.filename].channels = 3)
           => result.shape = <<224, 224, 3>>
     /\ C3_Values

\* a grayscale JPEG with a white pixel has been loaded with the defaults
C3_Witness ==
  /\ pc = "idle" /\ returned = "load_and_prep_image"
  /\ Top.img_shape = DefaultImgShape /\ Top.normalize
  /\ disk[Top.filename].channels = 1 /\ disk[Top.filename].hi = 255
  /\ result.shape = <<224, 224, 1>> /\ result.hi = <<1, 1>>

(* ---- the functions called one after another, checked under Spec ---- *)
AllFigures == {plt.figures[i] : i \in DOMAIN plt.figures} \cup {shown[i] : i \in DOMAIN shown}
ArtistsOf(fig, axes, label) ==
  {i \in DOMAIN fig.artists : fig.artists[i].axes = axes /\ fig.artists[i].label = label}

\* C4: what a call draws does not depend on the calls before it: the loss curves of a
\* call of plot_loss_curves are in a figure that this call created and that holds
\* nothing drawn by another call.
C4_CurvesOnOwnFigure ==
  \A fig \in AllFigures :
    \A i \in DOMAIN fig.artists :
      fig.artists[i].label = "training_loss" =>
        /\ fig.by = fig.artists[i].by
        /\ \A j \in DOMAIN fig.artists : fig.artists[j].by = fig.artists[i].by

HandlesOf(k) == {i \in DOMAIN handles : handles[i].by = k}
AllExtracted ==
  LET zip == disk[Top.filename]
  IN \A i \in DOMAIN zip.members :
       [name |-> zip.members[i], by |-> calls, fn |-> "unzip_data"] \in written

\* C5: a call of unzip_data opens at most one handle, exactly one once the open
\* succeeded; the handle is closed when the call returns, and it is still open when
\* extractall raised: at the end of the call it is closed iff the extraction succeeded.
C5_HandleClosedIffExtracted ==
  /\ \A k \in 1..calls : Cardinality(HandlesOf(k)) <= 1
  /\ (Top.fn # "unzip_data") => HandlesOf(calls) = {}
  /\ (Top.fn = "unzip_data") =>
       /\ (pc = "L151" \/ fault = 151) => HandlesOf(calls) = {}
       /\ (pc \in {"L152", "L153"}) =>
             HandlesOf(calls) = {Top.zip_ref} /\ handles[Top.zip_ref].state = "open"
       /\ (pc = "idle") =>
             /\ HandlesOf(calls) = {Top.zip_ref}
             /\ handles[Top.zip_ref].state = "closed"
             /\ AllExtracted
       /\ (fault = 152) =>
             /\ HandlesOf(calls) = {Top.zip_ref}
             /\ handles[Top.zip_ref].state = "open"
             /\ ~AllExtracted
       /\ (pc \in {"idle", "fault"} /\ Top.zip_ref # 0) =>
             (handles[Top.zip_ref].state = "closed" <=> AllExtracted)

\* an archive opened, its extraction failed after the first member, the handle left open
C5_Witness ==
  /\ pc = "fault" /\ fault = 152
  /\ Top.fn = "unzip_data"
  /\ handles[Top.zip_ref].state = "open"
  /\ [name |-> "a.jpg", by |-> calls, fn |-> "unzip_data"] \in written

\* the lines of each function
FunctionLines ==
  [load_and_prep_image |-> 13..23, make_confusion_matrix |-> 26..65,
   pred_and_plot |-> 68..82, create_tensorboard_callback |-> 85..91,
   plot_loss_curves |-> 94..114, compare_history |-> 117..147,
   unzip_data |-> 150..153, walk_through_dir |-> 156..158,
   calculate_results |-> 161..170]

\* once a library call raised: the running function and its callers have stopped at
\* that line and nothing was returned
C6_FaultIsFinal ==
  (fault # 0) =>
     /\ pc = "fault"
     /\ returned = "" /\ result = Unset
     /\ fault \in FunctionLines[Top.fn]

\* the walk came across a path it could not list: dir_path itself is missing or
\* unreadable, or a directory below it is
MetUnlistable ==
  LET tree == disk[Top.dir_path]
  IN \/ DOMAIN tree.parent = {}
     \/ \E d \in tree.denied : d = 1 \/ Listed(tree, tree.parent[d])

\* C6 as stated: in every function a failure inside the library (a missing path
\* included) ends the call with an uncaught fault, and the function never returns
\* normally after it.
C6_EveryFailureIsAFault ==
  /\ C6_FaultIsFinal
  /\ (pc = "idle" /\ Top.fn = "walk_through_dir") => ~MetUnlistable

C6_RaisedMeansStopped ==
  /\ C6_FaultIsFinal
  /\ (Top.fn = "walk_through_dir") => fault = 0

\* C6 as amended: an exception a library call raises is handled nowhere: the fault
\* ends the running function and its callers, the call never returns a value, and no
\* step of any function runs after it (no later statement, no retry); but
\* walk_through_dir never faults: os.walk ignores the paths it cannot list.
C6_FaultsPropagate == []C6_RaisedMeansStopped /\ [][fault = 0]_vars

\* a file that is no JPEG made decode_jpeg raise inside load_and_prep_image called by
\* pred_and_plot: both frames are abandoned, nothing was predicted or drawn
C6_Witness ==
  /\ pc = "fault" /\ fault = 16
  /\ Len(stack) = 2 /\ stack[1].fn = "pred_and_plot"
  /\ stack[1].pred = Unset
  /\ plt.figures = <<>>

SavedBy(k) == {w \in written : w.by = k /\ w.name = "confusion_matrix.png"}

\* C7: confusion_matrix.png is written by make_confusion_matrix only, by a call that
\* returns iff its savefig is true, and only after the plot has been built and shown;
\* the only other files written are the members unzip_data extracts.
C7_SavedIffSavefig ==
  /\ \A w \in written :
       /\ w.fn \in {"make_confusion_matrix", "unzip_data"}
       /\ (w.name = "confusion_matrix.png") <=> (w.fn = "make_confusion_matrix")
  /\ (Top.fn # "make_confusion_matrix") => SavedBy(calls) = {}
  /\ (Top.fn = "make_confusion_matrix") =>
       /\ (pc = "idle") => ((SavedBy(calls) # {}) <=> Top.savefig)
       /\ (pc # "idle") => SavedBy(calls) = {}
       /\ (SavedBy(calls) # {}) =>
            /\ shown # <<>>
            /\ LET fig == shown[Len(shown)]
               IN /\ fig.by = calls
                  /\ ArtistsOf(fig, "111", "confusion_matrix") # {}
                  /\ ArtistsOf(fig, "111", "title") # {}

\* a call with savefig=True returned after a call with savefig=False did
C7_Witness ==
  /\ pc = "idle" /\ returned = "make_confusion_matrix" /\ calls = 2
  /\ Top.savefig
  /\ written = {[name |-> "confusion_matrix.png", by |-> 2, fn |-> "make_confusion_matrix"]}

\* C8: for a model output of shape (1, n) and class names for every index,
\* pred_and_plot raises nowhere in the class selection and chooses
\* class_names[argmax] when n > 1 and class_names[round(pred[0][0])] when n = 1.
C8_ClassSelectionCompletes ==
  (/\ Top.fn = "pred_and_plot"
   /\ Top.pred # Unset
   /\ Top.pred.rank = 2
   /\ Len(Top.class_names) >= Len(Top.pred.scores)
   /\ Len(Top.class_names) >= 2) =>
     /\ fault \notin 73..78
     /\ (pc \in {"L80", "idle"}) =>
          Top.pred_class =
            IF Len(Top.pred.scores) > 1
            THEN Top.class_names[ArgMax(Top.pred.scores) + 1]
            ELSE Top.class_names[(IF Top.pred.scores[1] > 5 THEN 1 ELSE 0) + 1]

\* the figure compare_history drew and showed
ComparedFigure == shown[Len(shown)]
Curve(axes, label) ==
  LET fig == ComparedFigure
  IN fig.artists[CHOOSE i \in ArtistsOf(fig, axes, label) : TRUE].data

\* the curves of the four metrics: the original values followed by the new ones
C9_Curves ==
  LET o == Top.original_history
      n == Top.new_history
      joined(axes, label, m) ==
        /\ Cardinality(ArtistsOf(ComparedFigure, axes, label)) = 1
        /\ Curve(axes, label)[2] = o[m] \o n[m]
        /\ Len(Curve(axes, label)[2]) = Len(o[m]) + Len(n[m])
        /\ Curve(axes, label)[1] = Range(Len(o[m]) + Len(n[m]))
  IN /\ ComparedFigure.by = calls
     /\ joined("211", "Training Accuracy", "accuracy")
     /\ joined("211", "Validation Accuracy", "val_accuracy")
     /\ joined("212", "Training Loss", "loss")
     /\ joined("212", "Validation Loss", "val_loss")

\* the "Start Fine Tuning" line is drawn once in each subplot, at x
C9_MarkerAt(x) ==
  \A axes \in {"211", "212"} :
    /\ Cardinality(ArtistsOf(ComparedFigure, axes, "Start Fine Tuning")) = 1
    /\ Curve(axes, "Start Fine Tuning")[1] = <<x, x>>

C9_Compared == pc = "idle" /\ Top.fn = "compare_history"

C9_HistoriesKept ==
  (Running /\ Top.fn = "compare_history") =>
     /\ Top'.original_history = Top.original_history
     /\ Top'.new_history = Top.new_history

\* C9 as stated: the marker is at the last epoch of the original history,
\* len(original) - 1, whatever initial_epochs is.
C9_MarkerAtLastOriginalEpoch ==
  C9_Compared => (C9_Curves /\ C9_MarkerAt(Len(Top.original_history["accuracy"]) - 1))

C9_MarkerAtInitialEpochs ==
  C9_Compared => (C9_Curves /\ C9_MarkerAt(Top.initial_epochs - 1))

\* C9 as amended: the four curves are the original values followed by the new ones,
\* the histories are left as they were, and the marker is at x = initial_epochs - 1 in
\* both subplots (4 by default), whatever the length of the original history.
C9_MarkerFollowsArgument == []C9_MarkerAtInitialEpochs /\ [][C9_HistoriesKept]_vars

\* a two-epoch original history was compared with the default initial_epochs
C9_Witness ==
  /\ C9_Compared
  /\ Top.initial_epochs = DefaultInitialEpochs
  /\ Len(Top.original_history["accuracy"]) = 2
  /\ Curve("211", "Start Fine Tuning")[1] = <<4, 4>>
  /\ Curve("212", "Training Loss")[2] = <<121, 122, 221>>
====
